---- MODULE Spec2Model ----
(***************************************************************************)
(* Model of lab-2/location.py: the Location record and the                 *)
(* LocationDatabase built from a pandas data frame.                        *)
(*                                                                         *)
(* Python positions are 0-based, TLA+ sequences are 1-based: position p of *)
(* a Python list is element p + 1 of the sequence that models it.  Values  *)
(* that Python numbers itself (Location.index, the time argument of        *)
(* get_temporal_snapshot) keep their Python value.                         *)
(***************************************************************************)
EXTENDS Integers, Sequences, FiniteSets, TLC

VARIABLES df, db, loc, last

vars == <<df, db, loc, last>>

----------------------------------------------------------------------------
(* Bounds of the explored inputs *)

MaxRows == 3        \* rows of the data frame
MaxDbLen == 2       \* generate_from_df is only explored while len(db) <= MaxDbLen
MaxStations == 2    \* station sequences of a monitoring result
MaxSteps == 3       \* time steps of one station sequence of a result
MaxTrace == 2       \* trace length of a directly constructed Location
MaxArity == 3       \* metric fields of a directly constructed trace tuple

\* value domains of the cells of the data frame
Times == {0, 1}
BikeCounts == {0, 1}

----------------------------------------------------------------------------
(* The data frame *)

\* a missing NAME cell, as pandas reads it: equal to nothing, itself included
NaN == "NaN"

Names == {"A", "B", NaN}

Columns == {"NAME", "LAT", "LONG", "ABS_TIME", "NBBIKES", "NBEMPTYDOCKS"}

\* every station has one dock, free or taken; station B does not move, the
\* rows of the other names disagree on LAT
Rows ==
    { r \in [NAME : Names, LAT : {0, 1}, LONG : {2}, ABS_TIME : Times,
             NBBIKES : BikeCounts, NBEMPTYDOCKS : BikeCounts] :
        /\ r.NBEMPTYDOCKS = 1 - r.NBBIKES
        /\ r.LAT = (IF r.NAME = "B" THEN 1 ELSE r.ABS_TIME) }

SeqsUpTo(S, n) == UNION { [1..k -> S] : k \in 0..n }

Tables == SeqsUpTo(Rows, MaxRows)

\* the data frame with the columns of drop removed
DataFrame(rows, drop) == [columns |-> Columns \ drop, rows |-> rows]

----------------------------------------------------------------------------
(* Outcomes of a call: a returned value or a raised exception *)

Return(v) == [exc |-> "none", val |-> <<v>>]

Raise(e) == [exc |-> e, val |-> <<>>]

NoCall == [op |-> "none", exc |-> "none", before |-> <<>>, arg |-> <<>>, ret |-> <<>>]

Call(op, arg, r) ==
    [op |-> op, exc |-> r.exc, before |-> db, arg |-> arg, ret |-> r.val]

----------------------------------------------------------------------------
(* class Location *)

Location(index, name, coordinates, traces) ==
    [index |-> index, name |-> name, coordinates |-> coordinates, traces |-> traces]

Abs(x) == IF x < 0 THEN -x ELSE x

\* geopy.distance.distance(left, right).m is an external geodesic; it is
\* abstracted by a metric on the integer grid of the modelled coordinates
distance(self, other) ==
    LET left == self.coordinates
        right == other.coordinates
    IN  Abs(left[1] - right[1]) + Abs(left[2] - right[2])

\* value[1], value[2] of Python are fields 2 and 3 of the tuple
get_trace_values(self) ==
    IF \E p \in DOMAIN self.traces : Len(self.traces[p]) < 3
    THEN Raise("IndexError")
    ELSE Return([p \in DOMAIN self.traces |->
                    <<self.traces[p][2], self.traces[p][3]>>])

get_trace_time(self) ==
    IF \E p \in DOMAIN self.traces : Len(self.traces[p]) < 1
    THEN Raise("IndexError")
    ELSE Return([p \in DOMAIN self.traces |-> self.traces[p][1]])

----------------------------------------------------------------------------
(* class LocationDatabase *)

\* df['NAME'] == name: an elementwise comparison, False on a missing cell
NameEq(cell, name) == cell # NaN /\ name # NaN /\ cell = name

\* df['NAME'].unique(): distinct values in order of first appearance, the
\* missing value kept as one value
\* a unique() that forgets to drop the repeated names
unique_keeping_repeats(names) == names

RECURSIVE unique(_)
unique(names) ==
    IF names = <<>> THEN <<>>
    ELSE <<Head(names)>> \o
         unique(SelectSeq(Tail(names), LAMBDA x : x # Head(names)))

\* list.sort(key=lambda x: x[0]): ascending by the key, stable
\* an insertion that puts a value before the values of equal key (not stable)
RECURSIVE InsertBeforeTies(_, _)
InsertBeforeTies(sorted, v) ==
    IF sorted = <<>> THEN <<v>>
    ELSE IF v[1] <= Head(sorted)[1] THEN <<v>> \o sorted
    ELSE <<Head(sorted)>> \o InsertBeforeTies(Tail(sorted), v)

RECURSIVE InsertByKey(_, _)
InsertByKey(sorted, v) ==
    IF sorted = <<>> THEN <<v>>
    ELSE IF v[1] < Head(sorted)[1] THEN <<v>> \o sorted
    ELSE <<Head(sorted)>> \o InsertByKey(Tail(sorted), v)

RECURSIVE sort(_)
sort(values) ==
    IF values = <<>> THEN <<>>
    ELSE InsertByKey(sort(SubSeq(values, 1, Len(values) - 1)), values[Len(values)])

get_location_full(frame, name, index) ==
    LET location == SelectSeq(frame.rows, LAMBDA r : NameEq(r.NAME, name))
    IN  IF location = <<>> THEN Raise("IndexError")
        ELSE IF ~ ({"LAT", "LONG"} \subseteq frame.columns) THEN Raise("KeyError")
        ELSE IF ~ ({"ABS_TIME", "NBBIKES", "NBEMPTYDOCKS"} \subseteq frame.columns)
             THEN Raise("KeyError")
        ELSE LET row == location[1]
                 coordinates == <<row.LAT, row.LONG>>
                 traces == [p \in DOMAIN location |->
                              <<location[p].ABS_TIME, location[p].NBBIKES,
                                location[p].NBEMPTYDOCKS>>]
                 values == sort(traces)
             IN  Return(Location(index, name, coordinates, values))

\* enumerate(location_names) starts at 0
FirstIndex == 0

\* the loop of generate_from_df from position n on; what was appended before
\* a raising iteration stays appended
RECURSIVE BuildLoop(_, _, _, _)
BuildLoop(frame, location_names, n, acc) ==
    IF n > Len(location_names) THEN [exc |-> "none", val |-> <<>>, db |-> acc]
    ELSE LET r == get_location_full(frame, location_names[n], FirstIndex + n - 1)
         IN  IF r.exc # "none" THEN [exc |-> r.exc, val |-> <<>>, db |-> acc]
             ELSE BuildLoop(frame, location_names, n + 1, Append(acc, r.val[1]))

generate_from_df(drop) ==
    /\ Len(db) <= MaxDbLen
    /\ LET frame == DataFrame(df, drop)
           r == IF "NAME" \notin frame.columns
                THEN [exc |-> "KeyError", val |-> <<>>, db |-> db]
                ELSE BuildLoop(frame,
                               unique([p \in DOMAIN frame.rows |-> frame.rows[p].NAME]),
                               1, db)
       IN  /\ db' = r.db
           /\ last' = Call("generate_from_df", <<drop>>, r)
    /\ UNCHANGED <<df, loc>>

\* the record appended for positions l_idx, r_idx of the two loops
Edge(self_db, l_idx, r_idx) ==
    LET left_location == self_db[l_idx + 1]
        right_location == self_db[r_idx + 1]
    IN  <<left_location.index, right_location.index,
          distance(left_location, right_location)>>

\* an inner loop that skips the pair of a location with itself
EdgesWithoutSelf(self_db) ==
    LET n == Len(self_db)
        all == [k \in 1..(n * n) |-> <<(k - 1) \div n, (k - 1) % n>>]
        kept == SelectSeq(all, LAMBDA e : e[1] # e[2])
    IN  [k \in DOMAIN kept |-> Edge(self_db, kept[k][1], kept[k][2])]

\* the two nested loops over range(len(self.db)), outer index first
Edges(self_db) ==
    LET n == Len(self_db)
    IN  [k \in 1..(n * n) |-> Edge(self_db, (k - 1) \div n, (k - 1) % n)]

generate_graph ==
    /\ last' = Call("generate_graph", <<>>, Return(<<Edges(db)>>))
    /\ UNCHANGED <<df, db, loc>>

Traces(self_db) ==
    IF \E p \in DOMAIN self_db : get_trace_values(self_db[p]).exc # "none"
    THEN Raise("IndexError")
    ELSE Return([p \in DOMAIN self_db |-> get_trace_values(self_db[p]).val[1]])

get_traces ==
    /\ last' = Call("get_traces", <<>>, Traces(db))
    /\ UNCHANGED <<df, db, loc>>

get_time ==
    /\ last' = Call("get_time", <<>>,
                    IF db = <<>> THEN Raise("IndexError") ELSE get_trace_time(db[1]))
    /\ UNCHANGED <<df, db, loc>>

\* an indexing that takes i as a 1-based position
GetItemFromOne(list, i) ==
    IF 1 <= i /\ i <= Len(list) THEN Return(list[i]) ELSE Raise("IndexError")

\* list[i] of Python: 0-based, a negative i counts from the end
GetItem(list, i) ==
    IF 0 <= i /\ i < Len(list) THEN Return(list[i + 1])
    ELSE IF -Len(list) <= i /\ i < 0 THEN Return(list[Len(list) + i + 1])
    ELSE Raise("IndexError")

\* [location[time] for location in result]
Snapshot(result, time) ==
    IF \E s \in DOMAIN result : GetItem(result[s], time).exc # "none"
    THEN Raise("IndexError")
    ELSE Return([s \in DOMAIN result |-> GetItem(result[s], time).val[1]])

get_temporal_snapshot(result, time) ==
    /\ last' = Call("get_temporal_snapshot", <<result, time>>, Snapshot(result, time))
    /\ UNCHANGED <<df, db, loc>>

----------------------------------------------------------------------------
(* A Location constructed directly, outside a database *)

NewLocation(index, name, coordinates, traces) ==
    /\ loc' = <<Location(index, name, coordinates, traces)>>
    /\ last' = Call("Location", <<>>, Return(<<>>))
    /\ UNCHANGED <<df, db>>

trace_values ==
    /\ loc # <<>>
    /\ last' = Call("get_trace_values", <<>>, get_trace_values(loc[1]))
    /\ UNCHANGED <<df, db, loc>>

trace_time ==
    /\ loc # <<>>
    /\ last' = Call("get_trace_time", <<>>, get_trace_time(loc[1]))
    /\ UNCHANGED <<df, db, loc>>

----------------------------------------------------------------------------
(* The database built from a table and queried *)

Init ==
    /\ df \in Tables
    /\ db = <<>>
    /\ loc = <<>>
    /\ last = NoCall

Next ==
    \/ \E drop \in {{}} \cup {{c} : c \in Columns} : generate_from_df(drop)
    \/ generate_graph
    \/ get_traces
    \/ get_time

Spec == Init /\ [][Next]_vars

----------------------------------------------------------------------------
(* The database of up to two stations and the snapshots of a result *)

StationRow(name) ==
    CHOOSE r \in Rows : r.NAME = name /\ r.ABS_TIME = 0 /\ r.NBBIKES = 0

StationTables == {<<>>, <<StationRow("A")>>, <<StationRow("A"), StationRow("B")>>}

\* the sequence of station s of a result: [timestamp, value] per time step
Series(s, steps) == [t \in 1..steps |-> <<t - 1, 10 * s + t - 1>>]

Results ==
    UNION { { [s \in 1..k |-> Series(s, steps[s])] : steps \in [1..k -> 0..MaxSteps] } :
            k \in 0..MaxStations }

\* every position of a sequence, counted from either end, and one beyond
TimePoints == (-(MaxSteps + 1))..MaxSteps

InitSnap ==
    /\ df \in StationTables
    /\ db = <<>>
    /\ loc = <<>>
    /\ last = NoCall

NextSnap ==
    \/ generate_from_df({})
    \/ \E result \in Results, time \in TimePoints : get_temporal_snapshot(result, time)

SpecSnap == InitSnap /\ [][NextSnap]_vars

----------------------------------------------------------------------------
(* Locations constructed directly and their accessors *)

\* traces of tuples (timestamp, metric, ...), one arity per trace
TraceInputs ==
    UNION { SeqsUpTo([1..(arity + 1) -> Times], MaxTrace) : arity \in 1..MaxArity }

InitLoc ==
    /\ df = <<>>
    /\ db = <<>>
    /\ loc = <<>>
    /\ last = NoCall

NextLoc ==
    \/ \E traces \in TraceInputs : NewLocation(0, "A", <<0, 2>>, traces)
    \/ trace_values
    \/ trace_time

SpecLoc == InitLoc /\ [][NextLoc]_vars

----------------------------------------------------------------------------
(* Properties *)

\* the last call was a generate_from_df that returned, started on an empty db
BuiltFromEmpty ==
    /\ last.op = "generate_from_df"
    /\ last.exc = "none"
    /\ last.before = <<>>

\* the row of the table where a name first appears
FirstRow(name) ==
    CHOOSE p \in DOMAIN df : df[p].NAME = name /\ \A q \in 1..(p - 1) : df[q].NAME # name

\* C1: after generate_from_df has run on an empty database, db has one entry
\* per distinct station name of the table, in the order in which the names
\* first appear, and the entry at position p has index p.
C1_FirstSeenOrder ==
    BuiltFromEmpty =>
        /\ Len(db) = Cardinality({df[p].NAME : p \in DOMAIN df})
        /\ \A p \in DOMAIN db :
              /\ db[p].index = p - 1
              /\ db[p].name \in {df[q].NAME : q \in DOMAIN df}
        /\ \A p, q \in DOMAIN db :
              p < q => FirstRow(db[p].name) < FirstRow(db[q].name)

C1_Witness ==
    /\ BuiltFromEmpty
    /\ Len(df) = 3
    /\ Len(db) = 2
    /\ db[1].name = "B"
    /\ db[2].name = "A"

\* the tuples (timestamp, metrics...) of the rows of a name, in table order
MatchingTuples(name) ==
    LET rows == SelectSeq(df, LAMBDA r : r.NAME = name)
    IN  [p \in DOMAIN rows |-> <<rows[p].ABS_TIME, rows[p].NBBIKES, rows[p].NBEMPTYDOCKS>>]

\* t holds the tuples of m, each once, by non-decreasing timestamp, tuples of
\* equal timestamp in their order in m
IsStableSortOf(t, m) ==
    /\ Len(t) = Len(m)
    /\ \E f \in [DOMAIN t -> DOMAIN m] :
          /\ \A p \in DOMAIN t : t[p] = m[f[p]]
          /\ \A p, q \in DOMAIN t :
                p < q => \/ t[p][1] < t[q][1]
                         \/ t[p][1] = t[q][1] /\ f[p] < f[q]

NonDecreasing(times) ==
    \A p, q \in DOMAIN times : p < q => times[p] <= times[q]

\* C2: the trace of every Location of the database is the tuples of the
\* table rows of its name, sorted by timestamp, rows of equal timestamp in
\* table order; get_trace_time() of it is non-decreasing.
C2_StableSortedTrace ==
    \A p \in DOMAIN db :
        /\ IsStableSortOf(db[p].traces, MatchingTuples(db[p].name))
        /\ get_trace_time(db[p]).exc = "none"
        /\ NonDecreasing(get_trace_time(db[p]).val[1])

C2_Witness ==
    \E p \in DOMAIN db :
        /\ Len(db[p].traces) = 3
        /\ MatchingTuples(db[p].name) # db[p].traces
        /\ db[p].traces[1][1] = db[p].traces[2][1]
        /\ db[p].traces[1] # db[p].traces[2]

\* C3: generate_graph() returns one graph, and the graph holds n * n records:
\* each record (db[i].index, db[j].index, db[i].distance(db[j])) as many
\* times as there are pairs of positions (i, j) that give it.
C3_FullGraph ==
    last.op = "generate_graph" =>
        /\ last.exc = "none"
        /\ Len(last.ret[1]) = 1
        /\ LET graph == last.ret[1][1]
               n == Len(db)
               Pairs == (1..n) \X (1..n)
               Record(e) == <<db[e[1]].index, db[e[2]].index, distance(db[e[1]], db[e[2]])>>
           IN  /\ Len(graph) = n * n
               /\ \A k \in DOMAIN graph : \E e \in Pairs : graph[k] = Record(e)
               /\ \A e \in Pairs :
                     Cardinality({k \in DOMAIN graph : graph[k] = Record(e)})
                       = Cardinality({d \in Pairs : Record(d) = Record(e)})

C3_Witness ==
    /\ last.op = "generate_graph"
    /\ Len(db) = 2
    /\ Len(last.ret[1][1]) = 4
    /\ \E k \in 1..4 : last.ret[1][1][k][3] # 0

\* C4: no two entries of db have the same name, and no two the same index.
C4_UniqueNameAndIndex ==
    \A p, q \in DOMAIN db :
        p # q => db[p].name # db[q].name /\ db[p].index # db[q].index

\* C5: once db is populated, no operation changes it.
C5_PopulatedIsFinal == [][db # <<>> => db' = db]_vars

\* C10: a generate_from_df that raises leaves db as it was before the call.
C10_FailedBuildLeavesDb ==
    (last.op = "generate_from_df" /\ last.exc # "none") => db = last.before

\* a snapshot was asked of a result with one sequence per station, at a time
\* step that every sequence has
ValidSnapshotCall ==
    /\ last.op = "get_temporal_snapshot"
    /\ Len(last.arg[1]) = Len(db)
    /\ \A s \in DOMAIN last.arg[1] : 0 <= last.arg[2] /\ last.arg[2] < Len(last.arg[1][s])

C8_StationCountChecked ==
    (last.op = "get_temporal_snapshot" /\ Len(last.arg[1]) # Len(db))
        => last.exc # "none"

\* C9: get_temporal_snapshot raises an index error when time is not one of
\* the positions 0..len-1 of some station sequence.
C9_TimeRangeChecked ==
    ( /\ last.op = "get_temporal_snapshot"
      /\ \E s \in DOMAIN last.arg[1] :
            ~ (0 <= last.arg[2] /\ last.arg[2] < Len(last.arg[1][s])) )
        => last.exc = "IndexError"

\* C7: get_trace_values() returns, per trace tuple, all the fields after the
\* timestamp, whatever the number of metrics.
C7_AllMetricFields ==
    last.op = "get_trace_values" =>
        /\ last.exc = "none"
        /\ last.ret[1] = [p \in DOMAIN loc[1].traces |-> Tail(loc[1].traces[p])]

====
